---- MODULE Spec2Model ----
(***************************************************************************)
(* City Population API: the request handlers of app/main.py, the store     *)
(* adapter of app/database.py and the request model of app/models.py.      *)
(*                                                                         *)
(* Strings are sequences of character codes (32 = space, 65 = "A",         *)
(* 97 = "a").  An Optional[int] is a sequence: <<>> is None, <<n>> is n.   *)
(* The index is a set of documents [id, source].  A handler is cut at its  *)
(* awaits: one action per client call it waits for.                        *)
(***************************************************************************)
EXTENDS Integers, Sequences, FiniteSets, TLC

(* ------------------------------ bounds --------------------------------- *)
MaxLen == 2
MaxPop == 1
NumClients == 2

(* -------------------------- program constants -------------------------- *)
MIN_LENGTH == 1
MAX_LENGTH == 100
MAX_RETRIES == 3
SEARCH_SIZE == 10000
HTTP_200_OK == 200
HTTP_400_BAD_REQUEST == 400
HTTP_404_NOT_FOUND == 404
HTTP_422_UNPROCESSABLE_ENTITY == 422
HTTP_500_INTERNAL_SERVER_ERROR == 500
HTTP_503_SERVICE_UNAVAILABLE == 503

VARIABLES index, slot, lastWriter
vars == <<index, slot, lastWriter>>

(* ------------------------------ inputs --------------------------------- *)
Chars == {32, 65, 97}
RawNames == UNION {[1..n -> Chars] : n \in 0..MaxLen}
Populations == (0 - 1)..MaxPop
SeqClients == {0}
ConcClients == 1..NumClients
ConcNames == {<<65>>}
ConcPopulations == 0..MaxPop
ClusterStatuses == {"green", "yellow", "red"}
TransportOutcomes == {"ok", "ConnectionTimeout", "ApiError"}

None == <<>>
Some(x) == <<x>>

(* ------------------------------ strings -------------------------------- *)
LowerChar(c) == IF c >= 65 /\ c <= 90 THEN c + 32 ELSE c

Lower(s) == [i \in 1..Len(s) |-> LowerChar(s[i])]

IsSpace(c) == c = 32

RECURSIVE LStrip(_)
LStrip(s) == IF s # <<>> /\ IsSpace(Head(s)) THEN LStrip(Tail(s)) ELSE s

RECURSIVE RStrip(_)
RStrip(s) ==
    IF s # <<>> /\ IsSpace(s[Len(s)]) THEN RStrip(SubSeq(s, 1, Len(s) - 1)) ELSE s

Strip(s) == RStrip(LStrip(s))

\* a handler that forgets lower()
NormalizeNoLower(s) == Strip(s)

\* city.lower().strip(), as both handlers normalize a name
Normalize(s) == Strip(Lower(s))

\* the order of a keyword field: code point by code point, a prefix first
RECURSIVE StrLess(_, _)
StrLess(a, b) ==
    IF b = <<>> THEN FALSE
    ELSE IF a = <<>> THEN TRUE
    ELSE IF Head(a) # Head(b) THEN Head(a) < Head(b)
    ELSE StrLess(Tail(a), Tail(b))

(* --------------------------- request model ----------------------------- *)
\* the model without its validator
CityFieldOkLengthOnly(raw) == Len(raw) >= MIN_LENGTH /\ Len(raw) <= MAX_LENGTH

\* Field(min_length=1, max_length=100) on the raw string, then the validator
CityFieldOk(raw) ==
    /\ Len(raw) >= MIN_LENGTH
    /\ Len(raw) <= MAX_LENGTH
    /\ Strip(raw) # <<>>

\* Field(ge=0)
PopulationFieldOk(pop) == pop >= 0

\* the validator returns v.strip()
validate_city_name(raw) == Strip(raw)

\* the body of POST /city is accepted as a CityPopulation
BodyValid(raw, pop) == CityFieldOk(raw) /\ PopulationFieldOk(pop)

(* ----------------------------- the store ------------------------------- *)
Ids(idx) == {d.id : d \in idx}

Doc(idx, id) == CHOOSE d \in idx : d.id = id

\* an index call without id: a new document each time
IndexDocAppend(idx, id, body) == idx \cup {[id |-> id, source |-> body]}

\* client.index(id=city, body=...): the document of that id is replaced
IndexDoc(idx, id, body) ==
    {d \in idx : d.id # id} \cup {[id |-> id, source |-> body]}

\* the body upsert_city writes
UpsertBody(city, population) == [city |-> city, population |-> population]

\* str(e) of the exceptions the client raises, in words
ErrorStr(exc) ==
    CASE exc = "NotFoundError" -> <<"NotFoundError", "404", "'found': False">>
      [] exc = "ConnectionTimeout" -> <<"ConnectionTimeout", "Read timed out">>
      [] exc = "ApiError" -> <<"ApiError", "500", "internal_server_error">>
      [] OTHER -> <<exc>>

LowerWord(w) ==
    CASE w = "NotFoundError" -> "notfounderror"
      [] w = "ConnectionTimeout" -> "connectiontimeout"
      [] w = "ApiError" -> "apierror"
      [] w = "Read timed out" -> "read timed out"
      [] w = "'found': False" -> "'found': false"
      [] OTHER -> w

\* the test with only its first pattern
IsNotFoundFirstPattern(exc) ==
    \E i \in DOMAIN ErrorStr(exc) : LowerWord(ErrorStr(exc)[i]) = "not_found"

\* 'not_found' in error_str or 'notfounderror' in error_str or "'found': false" in error_str
IsNotFound(exc) ==
    LET error_str == [i \in DOMAIN ErrorStr(exc) |-> LowerWord(ErrorStr(exc)[i])]
    IN \E i \in DOMAIN error_str :
          error_str[i] \in {"not_found", "notfounderror", "'found': false"}

\* client.get(id=city): the document, or the exception raised
ClientGet(idx, id, outcome) ==
    IF outcome # "ok" THEN [exc |-> outcome, source |-> None]
    ELSE IF id \in Ids(idx)
         THEN [exc |-> "", source |-> Some(Doc(idx, id).source.population)]
         ELSE [exc |-> "NotFoundError", source |-> None]

\* a get_city whose except branch always returns None
get_city_swallow(idx, city, outcome) ==
    [raised |-> "", value |-> ClientGet(idx, city, outcome).source]

\* ElasticsearchClient.get_city: [raised, value]
get_city(idx, city, outcome) ==
    LET response == ClientGet(idx, city, outcome)
    IN IF response.exc = "" THEN [raised |-> "", value |-> response.source]
       ELSE IF IsNotFound(response.exc) THEN [raised |-> "", value |-> None]
       ELSE [raised |-> response.exc, value |-> None]

\* the hits of the search: every document, ascending by city, at most size
RECURSIVE SortedHits(_)
SortedHits(idx) ==
    IF idx = {} THEN <<>>
    ELSE LET first == CHOOSE d \in idx :
                         \A e \in idx \ {d} : StrLess(d.source.city, e.source.city)
         IN <<first>> \o SortedHits(idx \ {first})

\* a search sorted "desc"
RECURSIVE DescendingHits(_)
DescendingHits(idx) ==
    IF idx = {} THEN <<>>
    ELSE LET first == CHOOSE d \in idx :
                         \A e \in idx \ {d} : StrLess(e.source.city, d.source.city)
         IN <<first>> \o DescendingHits(idx \ {first})

SearchHitsDescending(idx) == DescendingHits(idx)

SearchHits(idx) ==
    LET hits == SortedHits(idx)
    IN SubSeq(hits, 1, IF Len(hits) < SEARCH_SIZE THEN Len(hits) ELSE SEARCH_SIZE)

\* ElasticsearchClient.list_all_cities: the city data of the hits
list_all_cities(idx) ==
    LET hits == SearchHits(idx)
    IN [i \in 1..Len(hits) |->
          [city |-> hits[i].source.city, population |-> hits[i].source.population]]

\* a check that takes only green for healthy
HealthyOnlyGreen(status) == status = "green"

\* return status in ['green', 'yellow']
HealthyStatus(status) == status \in {"green", "yellow"}

\* ElasticsearchClient.health_check: an exception of the query is swallowed
health_check(outcome, reported) ==
    IF outcome = "ok" THEN HealthyStatus(reported) ELSE FALSE

\* the transport sends a failed request again: a timeout, while retries are left
WillRetry(outcome, retries) ==
    outcome = "ConnectionTimeout" /\ retries < MAX_RETRIES

(* ---------------------------- the handlers ----------------------------- *)
\* Python truth of an Optional[int]
Truthy(v) == v # None /\ v[1] # 0

\* operation = "update" if existing else "insert"
Operation(existing) == IF Truthy(existing) THEN "update" ELSE "insert"

\* if result is None
IsAbsent(result) == result = None

Idle ==
    [pc |-> "idle", kind |-> "", name |-> <<>>, population |-> 0, city |-> <<>>,
     operation |-> "", retries |-> 0, ops |-> <<>>, answers |-> <<>>,
     fresh |-> FALSE, status |-> 0, body |-> <<>>]

Ready(c) == slot[c].pc = "idle"

\* the handler returns or raises: answer is how its last client call ended
Respond(c, answer, status, body) ==
    slot' = [slot EXCEPT ![c].pc = "done", ![c].retries = 0,
                         ![c].answers = Append(@, answer),
                         ![c].status = status, ![c].body = body]

\* the transport sends the same request once more
Retry(c) == slot' = [slot EXCEPT ![c].retries = @ + 1]

\* POST /city arrives: the body is validated, the name normalized, get_city sent
PostStart(c, raw, pop) ==
    /\ Ready(c)
    /\ IF ~BodyValid(raw, pop)
       THEN slot' = [slot EXCEPT ![c] =
                [Idle EXCEPT !.pc = "done", !.kind = "POST", !.name = raw,
                             !.population = pop,
                             !.status = HTTP_422_UNPROCESSABLE_ENTITY,
                             !.body = <<"validation">>]]
       ELSE LET city_name == Normalize(validate_city_name(raw))
            IN IF pop < 0
               THEN slot' = [slot EXCEPT ![c] =
                        [Idle EXCEPT !.pc = "done", !.kind = "POST", !.name = raw,
                                     !.population = pop, !.city = city_name,
                                     !.status = HTTP_400_BAD_REQUEST,
                                     !.body = <<"Population must be a non-negative integer">>]]
               ELSE slot' = [slot EXCEPT ![c] =
                        [Idle EXCEPT !.pc = "post_get", !.kind = "POST", !.name = raw,
                                     !.population = pop, !.city = city_name,
                                     !.ops = <<"get">>,
                                     !.fresh = (city_name \notin Ids(index))]]
    /\ UNCHANGED <<index, lastWriter>>

\* the answer to get_city: the operation is decided and upsert_city sent
PostGet(c) ==
    /\ slot[c].pc = "post_get"
    /\ \E outcome \in TransportOutcomes :
          IF WillRetry(outcome, slot[c].retries) THEN Retry(c)
          ELSE LET existing == get_city(index, slot[c].city, outcome)
               IN IF existing.raised # ""
                  THEN Respond(c, outcome, HTTP_500_INTERNAL_SERVER_ERROR,
                               <<"Failed to upsert city", existing.raised>>)
                  ELSE slot' = [slot EXCEPT ![c].pc = "post_upsert",
                                            ![c].retries = 0,
                                            ![c].answers = Append(@, outcome),
                                            ![c].operation = Operation(existing.value),
                                            ![c].ops = Append(@, "upsert")]
    /\ UNCHANGED <<index, lastWriter>>

\* the answer to upsert_city: a request that timed out may have been applied
PostUpsert(c) ==
    /\ slot[c].pc = "post_upsert"
    /\ \E outcome \in TransportOutcomes, applied \in BOOLEAN :
          /\ outcome = "ok" => applied
          /\ outcome = "ApiError" => ~applied
          /\ IF applied
             THEN /\ index' = IndexDoc(index, slot[c].city,
                                       UpsertBody(slot[c].city, slot[c].population))
                  /\ lastWriter' = Some(c)
             ELSE UNCHANGED <<index, lastWriter>>
          /\ IF WillRetry(outcome, slot[c].retries) THEN Retry(c)
             ELSE IF outcome # "ok"
             THEN Respond(c, outcome, HTTP_500_INTERNAL_SERVER_ERROR,
                          <<"Failed to upsert city", outcome>>)
             ELSE Respond(c, outcome, HTTP_200_OK,
                          [city |-> slot[c].city, population |-> slot[c].population,
                           operation |-> slot[c].operation])

\* GET /city/{city_name} arrives: the name is normalized, get_city sent
GetStart(c, raw) ==
    /\ Ready(c)
    /\ slot' = [slot EXCEPT ![c] =
            [Idle EXCEPT !.pc = "get_call", !.kind = "GET", !.name = raw,
                         !.city = Normalize(raw), !.ops = <<"get">>,
                         !.fresh = (Normalize(raw) \notin Ids(index))]]
    /\ UNCHANGED <<index, lastWriter>>

GetCall(c) ==
    /\ slot[c].pc = "get_call"
    /\ \E outcome \in TransportOutcomes :
          IF WillRetry(outcome, slot[c].retries) THEN Retry(c)
          ELSE LET result == get_city(index, slot[c].city, outcome)
               IN IF result.raised # ""
                  THEN Respond(c, outcome, HTTP_500_INTERNAL_SERVER_ERROR,
                               <<"Failed to query city", result.raised>>)
                  ELSE IF IsAbsent(result.value)
                  THEN Respond(c, outcome, HTTP_404_NOT_FOUND, <<"not found">>)
                  ELSE Respond(c, outcome, HTTP_200_OK,
                               [city |-> slot[c].city, population |-> result.value[1]])
    /\ UNCHANGED <<index, lastWriter>>

\* GET /cities
ListStart(c) ==
    /\ Ready(c)
    /\ slot' = [slot EXCEPT ![c] =
            [Idle EXCEPT !.pc = "list_call", !.kind = "LIST", !.ops = <<"search">>]]
    /\ UNCHANGED <<index, lastWriter>>

ListCall(c) ==
    /\ slot[c].pc = "list_call"
    /\ \E outcome \in TransportOutcomes :
          IF WillRetry(outcome, slot[c].retries) THEN Retry(c)
          ELSE IF outcome # "ok"
          THEN Respond(c, outcome, HTTP_500_INTERNAL_SERVER_ERROR,
                       <<"Failed to list cities", outcome>>)
          ELSE LET cities == list_all_cities(index)
               IN Respond(c, outcome, HTTP_200_OK,
                          [count |-> Len(cities), cities |-> cities])
    /\ UNCHANGED <<index, lastWriter>>

\* GET /health
HealthStart(c) ==
    /\ Ready(c)
    /\ slot' = [slot EXCEPT ![c] =
            [Idle EXCEPT !.pc = "health_call", !.kind = "HEALTH", !.ops = <<"health">>]]
    /\ UNCHANGED <<index, lastWriter>>

\* health_check swallows every exception and answers False
HealthCall(c) ==
    /\ slot[c].pc = "health_call"
    /\ \E outcome \in TransportOutcomes, reported \in ClusterStatuses :
          IF WillRetry(outcome, slot[c].retries) THEN Retry(c)
          ELSE LET db_status == health_check(outcome, reported)
                   seen == IF outcome = "ok" THEN reported ELSE outcome
               IN IF ~db_status
                  THEN Respond(c, seen, HTTP_503_SERVICE_UNAVAILABLE,
                               [status |-> "unhealthy", database |-> "disconnected"])
                  ELSE Respond(c, seen, HTTP_200_OK,
                               [status |-> "OK", database |-> "connected"])
    /\ UNCHANGED <<index, lastWriter>>

\* the response is sent and the client is free to send its next request
Deliver(c) ==
    /\ slot[c].pc = "done"
    /\ slot' = [slot EXCEPT ![c] = Idle]
    /\ UNCHANGED <<index, lastWriter>>

(* --------------------------- specifications ---------------------------- *)
\* after startup: connected, the index exists and this system wrote nothing yet
Init ==
    /\ index = {}
    /\ slot = [c \in SeqClients \cup ConcClients |-> Idle]
    /\ lastWriter = None

\* one client sending any request, one after another
Next ==
    \/ \E c \in SeqClients, raw \in RawNames, pop \in Populations : PostStart(c, raw, pop)
    \/ \E c \in SeqClients : PostGet(c)
    \/ \E c \in SeqClients : PostUpsert(c)
    \/ \E c \in SeqClients, raw \in RawNames : GetStart(c, raw)
    \/ \E c \in SeqClients : GetCall(c)
    \/ \E c \in SeqClients : ListStart(c)
    \/ \E c \in SeqClients : ListCall(c)
    \/ \E c \in SeqClients : HealthStart(c)
    \/ \E c \in SeqClients : HealthCall(c)
    \/ \E c \in SeqClients : Deliver(c)

Spec == Init /\ [][Next]_vars

\* several clients, each sending one POST /city for the same city, in flight together
NextConc ==
    \/ \E c \in ConcClients, raw \in ConcNames, pop \in ConcPopulations :
          PostStart(c, raw, pop)
    \/ \E c \in ConcClients : PostGet(c)
    \/ \E c \in ConcClients : PostUpsert(c)

SpecConc == Init /\ [][NextConc]_vars

(* ------------------------- reference notions --------------------------- *)
\* the trimmed, lowercased form of a name, said without the handlers' operators
TrimLower(s) ==
    LET inked == {i \in 1..Len(s) : s[i] # 32}
    IN IF inked = {} THEN <<>>
       ELSE LET lo == CHOOSE i \in inked : \A j \in inked : i <= j
                hi == CHOOSE i \in inked : \A j \in inked : j <= i
            IN [i \in 1..(hi - lo + 1) |->
                  IF s[lo + i - 1] \in 65..90 THEN s[lo + i - 1] + 32 ELSE s[lo + i - 1]]

\* a strictly before b in ascending order of identifiers
LexBefore(a, b) ==
    \E k \in 1..(Len(b)) :
       /\ \A i \in 1..(k - 1) : i <= Len(a) /\ a[i] = b[i]
       /\ \/ k = Len(a) + 1
          \/ k <= Len(a) /\ a[k] < b[k]

Done(c, kind) == slot[c].pc = "done" /\ slot[c].kind = kind

LastAnswer(c) == slot[c].answers[Len(slot[c].answers)]

(* ------------------------------- claims -------------------------------- *)

\* C1: a POST /city that responds 200 reports "insert" when its city had no
\* stored record and "update" when it had one, whatever population is stored.
C1_InsertOrUpdate ==
    \A c \in SeqClients :
       (Done(c, "POST") /\ slot[c].status = HTTP_200_OK) =>
          slot[c].body.operation = (IF slot[c].fresh THEN "insert" ELSE "update")

\* C2: the store holds one record per normalized city; a successful upsert
\* leaves exactly its own (city, population) under that city and touches no
\* other record; the index changes by upserts only; and a get that answers
\* returns the population stored under the normalized name.
C2_OneRecordPerCity == \A d1, d2 \in index : d1.id = d2.id => d1 = d2

C2_UpsertStep ==
    \A c \in SeqClients :
       (slot[c].pc = "post_upsert" /\ slot'[c].pc = "done"
           /\ slot'[c].status = HTTP_200_OK) =>
          /\ {d \in index' : d.id = slot[c].city} =
                {[id |-> slot[c].city,
                  source |-> [city |-> slot[c].city,
                              population |-> slot[c].population]]}
          /\ {d \in index' : d.id # slot[c].city} = {d \in index : d.id # slot[c].city}

C2_GetStep ==
    \A c \in SeqClients :
       (slot[c].pc = "get_call" /\ slot'[c].pc = "done"
           /\ slot'[c].status = HTTP_200_OK) =>
          \E d \in index : /\ d.id = TrimLower(slot[c].name)
                           /\ slot'[c].body.population = d.source.population

C2_WriteStep ==
    index' # index =>
       \E c \in SeqClients :
          /\ slot[c].pc = "post_upsert"
          /\ \A d \in index' \ index :
                d = [id |-> slot[c].city,
                     source |-> [city |-> slot[c].city,
                                 population |-> slot[c].population]]

C2_UpsertThenGet ==
    /\ []C2_OneRecordPerCity
    /\ [][C2_UpsertStep /\ C2_GetStep /\ C2_WriteStep]_vars

\* C2 witness: a get answered 200 with a population that an upsert stored
C2_Witness ==
    \E c \in SeqClients :
       /\ Done(c, "GET") /\ slot[c].status = HTTP_200_OK
       /\ slot[c].body.population = MaxPop
       /\ Cardinality(index) >= 2

\* C3: a POST /city with a negative population responds 400 and issues neither
\* the pre-check get nor the upsert.
C3_NegativeIs400 ==
    \A c \in SeqClients :
       (Done(c, "POST") /\ slot[c].population < 0) =>
          (slot[c].status = HTTP_400_BAD_REQUEST /\ slot[c].ops = <<>>)

\* C4: a POST /city of name c and population p that responds 200 has stored p
\* under the trimmed, lowercased form of c; and a GET /city/{n} that the store
\* answers, for a name n whose trimmed, lowercased form has a record, responds
\* 200 with that record's population and with the trimmed, lowercased n as city.
C4_LookupNormalized ==
    \A c \in SeqClients :
       /\ (Done(c, "POST") /\ slot[c].status = HTTP_200_OK) =>
             [id |-> TrimLower(slot[c].name),
              source |-> [city |-> TrimLower(slot[c].name),
                          population |-> slot[c].population]] \in index
       /\ (Done(c, "GET") /\ LastAnswer(c) = "ok") =>
             \A d \in index :
                d.id = TrimLower(slot[c].name) =>
                   /\ slot[c].status = HTTP_200_OK
                   /\ slot[c].body = [city |-> TrimLower(slot[c].name),
                                      population |-> d.source.population]

\* C4 witness: a name with an upper-case letter and a space was looked up and found
C4_Witness ==
    \E c \in SeqClients :
       /\ Done(c, "GET") /\ slot[c].status = HTTP_200_OK
       /\ \E i, j \in 1..Len(slot[c].name) :
             slot[c].name[i] = 65 /\ slot[c].name[j] = 32

\* C5 as written: GET /city/{name} of an identifier never written responds 404,
\* never 500 and never 200.
C5_NeverWrittenIs404 ==
    \A c \in SeqClients :
       (Done(c, "GET") /\ slot[c].fresh) => slot[c].status = HTTP_404_NOT_FOUND

\* C5 amended: for an identifier never written, GET /city/{name} responds 404
\* exactly when the store answers the lookup and 500 when the lookup itself
\* fails, never 200; and a pre-check get the store answers does not raise: the
\* POST goes on to its upsert and reports "insert".
C5_AbsentIs404 ==
    \A c \in SeqClients :
       /\ (Done(c, "GET") /\ slot[c].fresh) =>
             /\ slot[c].status \in {HTTP_404_NOT_FOUND, HTTP_500_INTERNAL_SERVER_ERROR}
             /\ slot[c].status = HTTP_404_NOT_FOUND <=> LastAnswer(c) = "ok"
       /\ (slot[c].kind = "POST" /\ slot[c].fresh /\ slot[c].answers # <<>>
              /\ slot[c].answers[1] = "ok") =>
             (slot[c].ops = <<"get", "upsert">> /\ slot[c].operation = "insert")

\* C5 witness: a lookup of an identifier never written was answered 404
C5_Witness ==
    \E c \in SeqClients :
       Done(c, "GET") /\ slot[c].fresh /\ slot[c].status = HTTP_404_NOT_FOUND

\* C6: GET /health responds 200 with status "OK" exactly when the cluster
\* reported green or yellow, and 503 "unhealthy" on any other status and on any
\* failure of the status query; it responds nothing else.
C6_HealthExactly ==
    \A c \in SeqClients :
       Done(c, "HEALTH") =>
          /\ slot[c].status \in {HTTP_200_OK, HTTP_503_SERVICE_UNAVAILABLE}
          /\ slot[c].status = HTTP_200_OK <=> LastAnswer(c) \in {"green", "yellow"}
          /\ slot[c].status = HTTP_200_OK =>
                slot[c].body = [status |-> "OK", database |-> "connected"]
          /\ slot[c].status = HTTP_503_SERVICE_UNAVAILABLE =>
                slot[c].body.status = "unhealthy"

\* C6 witness: a degraded-but-serving cluster was reported healthy
C6_Witness ==
    \E c \in SeqClients :
       Done(c, "HEALTH") /\ LastAnswer(c) = "yellow" /\ slot[c].status = HTTP_200_OK

\* C7: every stored record has a population >= 0 and a key that is non-empty
\* and equal to its own trimmed, lowercased form, and its city field is its key.
C7_StoredRecordsCanonical ==
    \A d \in index :
       /\ d.source.population >= 0
       /\ d.id # <<>>
       /\ d.id = TrimLower(d.id)
       /\ d.source.city = d.id

\* C7 witness: a name given with upper case and spaces was stored
C7_Witness ==
    \E c \in SeqClients :
       /\ Done(c, "POST") /\ slot[c].status = HTTP_200_OK
       /\ slot[c].name # slot[c].city
       /\ \E d \in index : d.id = slot[c].city

\* C8: a GET /cities that the store answers responds 200 with every stored
\* record exactly once, ascending by city identifier, and with count the
\* number of records returned; with nothing stored, an empty list and count 0.
C8_ListSorted ==
    \A c \in SeqClients :
       Done(c, "LIST") =>
          /\ LastAnswer(c) = "ok" <=> slot[c].status = HTTP_200_OK
          /\ slot[c].status = HTTP_200_OK =>
                LET cities == slot[c].body.cities
                IN /\ slot[c].body.count = Len(cities)
                   /\ Len(cities) = Cardinality(index)
                   /\ {cities[i] : i \in 1..Len(cities)} = {d.source : d \in index}
                   /\ \A i \in 1..(Len(cities) - 1) :
                         LexBefore(cities[i].city, cities[i + 1].city)
                   /\ index = {} => (cities = <<>> /\ slot[c].body.count = 0)

\* C8 witness: a listing of at least two records
C8_Witness ==
    \E c \in SeqClients :
       Done(c, "LIST") /\ slot[c].status = HTTP_200_OK /\ slot[c].body.count >= 2

\* C9 as written: no store call is sent a second time, a failed store call
\* surfaces as 500, and a failed pre-check get leaves the upsert unattempted.
C9_AttemptedOnce ==
    \A c \in SeqClients :
       /\ slot[c].retries = 0
       /\ (slot[c].pc = "done" /\ slot[c].kind \in {"POST", "GET", "LIST"}
              /\ slot[c].answers # <<>> /\ LastAnswer(c) # "ok") =>
             slot[c].status = HTTP_500_INTERNAL_SERVER_ERROR
       /\ (slot[c].kind = "POST" /\ slot[c].answers # <<>>
              /\ slot[c].answers[1] # "ok") => slot[c].ops = <<"get">>

\* C9 amended: the handlers call each adapter operation at most once per
\* request and never call it again after a failure; only the client transport
\* re-sends a timed-out request, at most MAX_RETRIES times; a store call that
\* ends in failure surfaces as 500; and when the pre-check get fails the
\* request ends with 500, the upsert is not called and the step that returns
\* the failure leaves the stored records as they were.
C9_FailureState ==
    \A c \in SeqClients :
       /\ slot[c].retries <= MAX_RETRIES
       /\ \A i, j \in 1..Len(slot[c].ops) : slot[c].ops[i] = slot[c].ops[j] => i = j
       /\ (slot[c].pc = "done" /\ slot[c].kind \in {"POST", "GET", "LIST"}
              /\ slot[c].answers # <<>> /\ LastAnswer(c) # "ok") =>
             slot[c].status = HTTP_500_INTERNAL_SERVER_ERROR
       /\ (slot[c].kind = "POST" /\ slot[c].answers # <<>>
              /\ slot[c].answers[1] # "ok") =>
             /\ slot[c].ops = <<"get">>
             /\ slot[c].pc = "done"
             /\ slot[c].status = HTTP_500_INTERNAL_SERVER_ERROR

C9_PreCheckStep ==
    \A c \in SeqClients : slot[c].pc = "post_get" => index' = index

C9_FailureIs500 == []C9_FailureState /\ [][C9_PreCheckStep]_vars

\* C9 witness: a pre-check get failed after the transport had used up its retries
C9_Witness ==
    \E c \in SeqClients :
       /\ Done(c, "POST") /\ slot[c].ops = <<"get">>
       /\ slot[c].answers = <<"ConnectionTimeout">>
       /\ slot[c].status = HTTP_500_INTERNAL_SERVER_ERROR

\* the concurrent POSTs for a city that had no stored record when they started
FreshPosts == {c \in ConcClients : slot[c].kind = "POST" /\ slot[c].fresh}

AllResponded200 ==
    \A c \in FreshPosts : slot[c].pc = "done" /\ slot[c].status = HTTP_200_OK

Inserts == {c \in FreshPosts : slot[c].operation = "insert"}

\* C10 as written: of the concurrent POSTs for a city with no stored record,
\* exactly one reports "insert" and every other one "update".
C10_ExactlyOneInsert ==
    (FreshPosts # {} /\ AllResponded200) =>
       /\ Cardinality(Inserts) = 1
       /\ \A c \in FreshPosts \ Inserts : slot[c].operation = "update"

\* C10, the part the handlers do keep: of the concurrent POSTs for a city with
\* no stored record, once all have responded 200, at least one reports "insert"
\* (several do when their pre-checks all ran before the first upsert was
\* applied); and once every request has completed the stored population is that
\* of the request whose upsert was applied last.
C10_LastWriteWins ==
    /\ (FreshPosts # {} /\ AllResponded200) => Inserts # {}
    /\ (lastWriter # None /\ \A c \in ConcClients : slot[c].pc \in {"idle", "done"}) =>
          \E d \in index :
             /\ d.id = slot[lastWriter[1]].city
             /\ d.source.population = slot[lastWriter[1]].population

\* two concurrent requests both reported "insert"
C10_BothInsert ==
    /\ AllResponded200
    /\ Cardinality(Inserts) >= 2
    /\ \E c \in Inserts : slot[c].population # slot[lastWriter[1]].population

====
